---------------------------- MODULE Spec2Model ----------------------------
(***************************************************************************)
(* A model of backend/app/utils/data_profiler.py (class DataProfiler).     *)
(*                                                                         *)
(* The profiler is built over one pandas DataFrame and then answers        *)
(* requests: _profile_column, generate_profile and                         *)
(* generate_specific_visualization.  The state is the DataFrame, the three *)
(* column lists computed by __init__, the request made of the profiler,    *)
(* the rows value_counts().head(5) gave for each column profiled (head),   *)
(* and the response: a returned value or a raised exception.               *)
(*                                                                         *)
(* Text is kept as a sequence of runs [c |-> character, n |-> count], so   *)
(* that strings of 1000 characters (tests, line 28) cost nothing, and the  *)
(* length, the slice s[:100] and the concatenation are computed exactly.   *)
(***************************************************************************)
EXTENDS Integers, Sequences, FiniteSets, TLC

VARIABLES df, numeric_cols, categorical_cols, datetime_cols, request, head, response

vars == <<df, numeric_cols, categorical_cols, datetime_cols, request, head, response>>

(***************************************************************************)
(* Bounds of the model.                                                    *)
(***************************************************************************)
\* rows of a one-column DataFrame
MaxRows == 6
\* rows of a two-column DataFrame
MaxRowsWide == 2
\* the containers around the argument of the serializer
MaxDepth == 2
\* rows of a DataFrame of two correlated columns
MaxRowsCorr == 3

(***************************************************************************)
(* Constants of the program.                                               *)
(***************************************************************************)
\* _truncate_string(self, s, max_length: int = 100)
MaxLength == 100
\* value_counts.head(5)
TopN == 5
\* stats.skew / stats.kurtosis are called if len(non_null) > 2
MinEstimatorLen == 2
\* len(value_counts) <= 20
MaxCategories == 20

(***************************************************************************)
(* Text: runs of characters.                                               *)
(***************************************************************************)
Rep(c, n) == IF n = 0 THEN <<>> ELSE <<[c |-> c, n |-> n]>>

RECURSIVE StrLen(_)
StrLen(s) == IF s = <<>> THEN 0 ELSE Head(s).n + StrLen(Tail(s))

\* a + b
Concat(a, b) ==
    IF a = <<>> THEN b
    ELSE IF b = <<>> THEN a
    ELSE IF a[Len(a)].c = b[1].c
         THEN SubSeq(a, 1, Len(a) - 1)
              \o <<[c |-> b[1].c, n |-> a[Len(a)].n + b[1].n]>>
              \o Tail(b)
         ELSE a \o b

\* s[:k]
RECURSIVE Take(_, _)
Take(s, k) ==
    IF k <= 0 \/ s = <<>> THEN <<>>
    ELSE IF Head(s).n >= k THEN <<[c |-> Head(s).c, n |-> k]>>
    ELSE <<Head(s)>> \o Take(Tail(s), k - Head(s).n)

\* the text spelled by a sequence of characters
RECURSIVE Text(_)
Text(chars) ==
    IF chars = <<>> THEN <<>>
    ELSE Concat(Rep(Head(chars), 1), Text(Tail(chars)))

Digit(d) == <<"0", "1", "2", "3", "4", "5", "6", "7", "8", "9">>[d + 1]

\* the decimal digits of a natural number
RECURSIVE Digits(_)
Digits(n) ==
    IF n < 10 THEN Rep(Digit(n), 1)
    ELSE Concat(Digits(n \div 10), Rep(Digit(n % 10), 1))

\* str(n) of a Python int
IntText(n) == IF n < 0 THEN Concat(Rep("-", 1), Digits(-n)) ELSE Digits(n)

(***************************************************************************)
(* Python values.  A value is [t |-> type, v |-> payload]:                 *)
(*   "None"        None                                                    *)
(*   "NaT"         pandas.NaT                                              *)
(*   "int"         a Python int v                                          *)
(*   "float"       a Python float, v a Number (below)                      *)
(*   "bool"        True (v = 1) or False (v = 0)                           *)
(*   "str"         a Python str, v its text                                *)
(*   "bytes"       a bytes object (a binary parquet column), v its text    *)
(*   "list"        a Python list (nested JSON, file_handler.py line 79):   *)
(*                 an unhashable cell                                      *)
(*   "np.int64"    a numpy integer v                                       *)
(*   "np.float64"  a numpy float, v a Number                               *)
(*   "Timestamp"   a pandas Timestamp, midnight of day v of January 2024   *)
(* A Number is [n, d, r]: with d > 0 the real sgn(n) * (|n| / d) ^ (1/r),  *)
(* in lowest terms, r = 1 (a rational) or r = 2 (a square root); with      *)
(* d = 0 it is +inf (n = 1), -inf (n = -1) or NaN (n = 0).                 *)
(***************************************************************************)
RECURSIVE Gcd(_, _)
Gcd(a, b) == IF b = 0 THEN a ELSE Gcd(b, a % b)

Abs(a) == IF a < 0 THEN -a ELSE a

\* n / d, and sgn(n) * sqrt(|n| / d); x / 0 is NaN for x = 0, else +-inf
Ratio(n, d) ==
    IF d = 0 THEN [n |-> IF n > 0 THEN 1 ELSE IF n < 0 THEN -1 ELSE 0, d |-> 0, r |-> 1]
    ELSE LET s == IF d < 0 THEN -1 ELSE 1
             g == Gcd(Abs(n), Abs(d))
         IN  [n |-> s * (n \div g), d |-> s * (d \div g), r |-> 1]

Root(n, d) ==
    LET q == Ratio(n, d)
    IN  IF q.d = 0 \/ q.n = 0 THEN q
        ELSE IF \E a \in 1..Abs(q.n) : a * a = Abs(q.n) /\ \E b \in 1..q.d : b * b = q.d
             THEN LET a == CHOOSE a \in 1..Abs(q.n) : a * a = Abs(q.n)
                      b == CHOOSE b \in 1..q.d : b * b = q.d
                  IN  Ratio(IF q.n < 0 THEN -a ELSE a, b)
             ELSE [q EXCEPT !.r = 2]

Whole(x) == Ratio(x, 1)
NaN == Ratio(0, 0)
PosInf == Ratio(1, 0)
NegInf == Ratio(-1, 0)

IsNaNNumber(q) == q.d = 0 /\ q.n = 0
IsInfNumber(q) == q.d = 0 /\ q.n # 0
IsFinite(q) == q.d > 0

None == [t |-> "None", v |-> 0]
NaT == [t |-> "NaT", v |-> 0]
PyInt(n) == [t |-> "int", v |-> n]
PyFloat(q) == [t |-> "float", v |-> q]
PyBool(b) == [t |-> "bool", v |-> b]
PyStr(s) == [t |-> "str", v |-> s]
PyBytes(s) == [t |-> "bytes", v |-> s]
PyList(elems) == [t |-> "list", v |-> elems]
PyTuple(elems) == [t |-> "tuple", v |-> elems]
\* a dict of one or no item; v lists the items [k, v]
PyDict(items) == [t |-> "dict", v |-> items]
NpInt(n) == [t |-> "np.int64", v |-> n]
NpFloat(q) == [t |-> "np.float64", v |-> q]
Timestamp(day) == [t |-> "Timestamp", v |-> day]

\* 'a' * 1000, 'b' * 500, 'c' * 100 (tests, line 28), and a second text
\* that starts with the same 100 characters as 'a' * 1000
LongA == PyStr(Rep("a", 1000))
LongA2 == PyStr(Concat(Rep("a", 100), Rep("z", 1)))
LongB == PyStr(Rep("b", 500))
ExactC == PyStr(Rep("c", 100))
\* 120 bytes of a binary column
LongBytes == PyBytes(Rep("q", 120))

\* The cells a column of each dtype is drawn from, the missing marker last.
CellsOf(dtype) ==
    CASE dtype = "float64" ->
            <<NpFloat(Whole(1)), NpFloat(Whole(2)), NpFloat(Whole(3)),
              NpFloat(PosInf), NpFloat(NegInf), NpFloat(NaN)>>
      [] dtype = "object" ->
            <<PyStr(Rep("A", 1)), ExactC, LongA, LongA2, LongB, LongBytes,
              PyList(<<PyInt(1), PyInt(2)>>), None>>
      [] dtype = "datetime64[ns]" ->
            <<Timestamp(1), Timestamp(2), Timestamp(3), NaT>>
      [] dtype = "bool" ->
            <<PyBool(0), PyBool(1)>>

Dtypes == {"float64", "object", "datetime64[ns]", "bool"}

(***************************************************************************)
(* The DataFrames of the model: zero, one or two columns of the same       *)
(* length.  Every operation but the correlations reads a column through   *)
(* its counts, sums and order statistics only, so each multiset of cells   *)
(* is drawn once, as the sequence that lists the cells in the order of     *)
(* CellsOf; CorrelatedFrames below holds columns in every order.           *)
(***************************************************************************)
RECURSIVE SortedIdx(_, _)
SortedIdx(k, n) ==
    IF n = 0 THEN {<<>>}
    ELSE UNION {{Append(s, j) : j \in (IF s = <<>> THEN 1 ELSE s[Len(s)])..k}
                   : s \in SortedIdx(k, n - 1)}

\* The cells of a column of a two-column DataFrame: a shorter list.
WideCellsOf(dtype) ==
    CASE dtype = "float64" ->
            <<NpFloat(Whole(1)), NpFloat(Whole(2)), NpFloat(PosInf), NpFloat(NaN)>>
      [] dtype = "object" ->
            <<PyStr(Rep("A", 1)), PyList(<<PyInt(1), PyInt(2)>>), None>>
      [] dtype = "datetime64[ns]" ->
            <<Timestamp(1), Timestamp(2), NaT>>
      [] dtype = "bool" ->
            <<PyBool(0), PyBool(1)>>

\* the columns of n rows; cells[d] lists the cells of dtype d
ColumnsOf(name, n, cells) ==
    UNION {{[name |-> name, dtype |-> d,
             values |-> [i \in 1..n |-> cells[d][s[i]]]]
               : s \in SortedIdx(Len(cells[d]), n)} : d \in Dtypes}

\* A column of identifiers: 20 or 21 categories, the first five of them
\* twice, so that the bar chart's limit of 20 categories is met and passed.
ManyCategories(n) ==
    <<[name |-> "x", dtype |-> "object",
       values |-> [r \in 1..(n + TopN) |->
                      PyStr(IntText(IF r <= n THEN r ELSE r - n))]]>>

\* special_chars of the tests (line 27): '%$#@' and two texts outside of
\* ASCII, each character of those written as its code point
SpecialChars ==
    <<[name |-> "x", dtype |-> "object",
       values |-> <<PyStr(Text(<<"%", "$", "#", "@">>)),
                    PyStr(Text(<<"U+D55C", "U+AE00">>)),
                    PyStr(Text(<<"U+1F31F">>))>>]>>

\* A DataFrame with columns of every class: two numeric columns, one with a
\* missing value, the texts of special_chars, and timestamps.
Mixed ==
    <<[name |-> "numeric", dtype |-> "float64",
       values |-> <<NpFloat(Whole(1)), NpFloat(Whole(2)), NpFloat(NaN)>>],
      [name |-> "other", dtype |-> "float64",
       values |-> <<NpFloat(Whole(2)), NpFloat(Whole(4)), NpFloat(Whole(6))>>],
      [name |-> "special_chars", dtype |-> "object", values |-> SpecialChars[1].values],
      [name |-> "timestamps", dtype |-> "datetime64[ns]",
       values |-> <<Timestamp(1), Timestamp(2), Timestamp(3)>>]>>

\* Numeric columns for the correlations.  A correlation reads the rows, so
\* the second column comes in every order.
NumberColumn(name, cells) ==
    [name |-> name, dtype |-> "float64",
     values |-> [i \in 1..Len(cells) |-> NpFloat(Whole(cells[i]))]]

\* the orders of 1, 2, 3
Orders == {s \in [1..3 -> 1..3] : \A i, j \in 1..3 : s[i] = s[j] => i = j}

CorrelatedFrames ==
    {<<NumberColumn("x", [i \in 1..MaxRowsCorr |-> xs[i]]),
       NumberColumn("y", ys)>> :
         xs \in SortedIdx(3, MaxRowsCorr), ys \in [1..MaxRowsCorr -> 1..2]}
    \cup {<<NumberColumn("x", <<1, 2, 3>>), NumberColumn("y", ys), NumberColumn("z", zs)>> :
              ys \in Orders, zs \in Orders}

DataFrames ==
    {<<>>, SpecialChars, Mixed}
    \cup {ManyCategories(MaxCategories), ManyCategories(MaxCategories + 1)}
    \cup CorrelatedFrames
    \cup UNION {{<<c>> : c \in ColumnsOf("x", n, [d \in Dtypes |-> CellsOf(d)])}
                   : n \in 0..MaxRows}
    \cup UNION {{<<c1, c2>> :
                     c1 \in ColumnsOf("x", n, [d \in Dtypes |-> WideCellsOf(d)]),
                     c2 \in ColumnsOf("y", n, [d \in Dtypes |-> WideCellsOf(d)])}
                   : n \in 0..MaxRowsWide}

(***************************************************************************)
(* pandas and numpy, as far as the profiler uses them.                     *)
(***************************************************************************)
\* pd.isna(obj) of a scalar
IsNa(o) ==
    \/ o.t \in {"None", "NaT"}
    \/ o.t \in {"float", "np.float64"} /\ IsNaNNumber(o.v)

\* np.isinf(obj) of a float
IsInf(o) == o.t \in {"float", "np.float64"} /\ IsInfNumber(o.v)

\* hash(obj) succeeds
Hashable(o) == o.t # "list"

\* series.isna().all(): true of the empty series
IsNaAll(values) == \A i \in 1..Len(values) : IsNa(values[i])

\* series.isna().sum()
IsNaSum(values) == Cardinality({i \in 1..Len(values) : IsNa(values[i])})

NotNa(o) == ~IsNa(o)

\* series.dropna()
DropNa(values) == SelectSeq(values, NotNa)

\* the distinct non-null cells: the index of series.value_counts()
Unique(values) == {values[i] : i \in {j \in 1..Len(values) : NotNa(values[j])}}

\* series.value_counts()[k]
CountOf(values, k) == Cardinality({i \in 1..Len(values) : values[i] = k})

\* series.value_counts() and series.nunique() hash every non-null cell:
\* TypeError: unhashable type: 'list'
HashRaises(values) == \E i \in 1..Len(values) : NotNa(values[i]) /\ ~Hashable(values[i])

\* series.mean() and DataFrame.corr() need numbers: a str among the cells
\* of a column makes them raise
HoldsStr(values) == \E i \in 1..Len(values) : values[i].t = "str"

\* series.nunique()
NUnique(values) == Cardinality(Unique(values))

Min(a, b) == IF a < b THEN a ELSE b

\* the subsets of S that have k elements
RECURSIVE KSubsets(_, _)
KSubsets(S, k) ==
    IF k = 0 THEN {{}}
    ELSE IF Cardinality(S) < k THEN {}
    ELSE LET x == CHOOSE x \in S : TRUE
         IN  KSubsets(S \ {x}, k) \cup {t \cup {x} : t \in KSubsets(S \ {x}, k - 1)}

\* series.value_counts().head(k): the k most frequent cells.  The order of
\* cells with equal counts is pandas' choice, so every set of k cells that
\* no more frequent cell is left out of is a possible head.
HeadsOf(values, k) ==
    LET n == Min(k, NUnique(values))
        ahead(a) == {b \in Unique(values) : CountOf(values, b) > CountOf(values, a)}
        level(a) == {b \in Unique(values) : CountOf(values, b) >= CountOf(values, a)}
        \* the cells of every head, and the cells with the count of the last place
        sure == {a \in Unique(values) : Cardinality(level(a)) <= n}
        tied == {a \in Unique(values) : Cardinality(ahead(a)) < n} \ sure
    IN  {sure \cup t : t \in KSubsets(tied, n - Cardinality(sure))}

\* df[name]
ColumnNames(frame) == {frame[i].name : i \in 1..Len(frame)}
Column(frame, name) == frame[CHOOSE i \in 1..Len(frame) : frame[i].name = name]

\* len(df)
NRows(frame) == IF frame = <<>> THEN 0 ELSE Len(frame[1].values)

\* .columns of a selection of columns
NamesOf(sel) == [i \in 1..Len(sel) |-> sel[i].name]

InSeq(x, seq) == \E i \in 1..Len(seq) : seq[i] = x

(***************************************************************************)
(* DataProfiler.__init__                                                   *)
(***************************************************************************)
\* df.select_dtypes(include=[np.number])
IsNumberDtype(col) == col.dtype = "float64"

AnyInf(values) == \E i \in 1..Len(values) : IsInf(values[i])

IsNumericColWithInfinities(col) ==
    IsNumberDtype(col) /\ ~IsNaAll(col.values)

\* lines 17-20: numeric dtype, and not (all null or any infinite value)
IsNumericCol(col) ==
    /\ IsNumberDtype(col)
    /\ ~(IsNaAll(col.values) \/ AnyInf(DropNa(col.values)))

\* df.select_dtypes(include=['object', 'category', 'bool'])
IsCategoricalCol(col) == col.dtype \in {"object", "category", "bool"}

\* df.select_dtypes(include=['datetime64'])
IsDatetimeCol(col) == col.dtype = "datetime64[ns]"

NumericCols(frame) == NamesOf(SelectSeq(frame, IsNumericCol))
CategoricalCols(frame) == NamesOf(SelectSeq(frame, IsCategoricalCol))
DatetimeCols(frame) == NamesOf(SelectSeq(frame, IsDatetimeCol))
(***************************************************************************)
(* Python's str() and isoformat().                                         *)
(***************************************************************************)
\* str(x) of a float: integral values print as "3.0"
FloatText(q) ==
    CASE IsNaNNumber(q) -> Text(<<"n", "a", "n">>)
      [] IsInfNumber(q) /\ q.n > 0 -> Text(<<"i", "n", "f">>)
      [] IsInfNumber(q) /\ q.n < 0 -> Text(<<"-", "i", "n", "f">>)
      [] IsFinite(q) /\ q.d = 1 /\ q.r = 1 -> Concat(IntText(q.n), Text(<<".", "0">>))

\* "2024-01-0d"
DateText(day) == Concat(Text(<<"2", "0", "2", "4", "-", "0", "1", "-", "0">>), Digits(day))

ClockText == Text(<<"0", "0", ":", "0", "0", ":", "0", "0">>)

\* Timestamp.isoformat()
IsoFormat(day) == Concat(DateText(day), Concat(Rep("T", 1), ClockText))

\* str(obj)
StrOf(o) ==
    CASE o.t = "str" -> o.v
      [] o.t = "bytes" -> Concat(Text(<<"b", "'">>), Concat(o.v, Rep("'", 1)))
      [] o.t \in {"float", "np.float64"} -> FloatText(o.v)
      [] o.t \in {"int", "np.int64"} -> IntText(o.v)
      [] o.t = "bool" -> IF o.v = 1 THEN Text(<<"T", "r", "u", "e">>)
                         ELSE Text(<<"F", "a", "l", "s", "e">>)
      [] o.t = "Timestamp" -> Concat(DateText(o.v), Concat(Rep(" ", 1), ClockText))
      [] o.t = "None" -> Text(<<"N", "o", "n", "e">>)
      [] o.t = "NaT" -> Text(<<"N", "a", "T">>)

\* str(series.dtype)
DtypeText(dtype) ==
    CASE dtype = "float64" -> Text(<<"f", "l", "o", "a", "t", "6", "4">>)
      [] dtype = "object" -> Text(<<"o", "b", "j", "e", "c", "t">>)
      [] dtype = "bool" -> Text(<<"b", "o", "o", "l">>)
      [] dtype = "datetime64[ns]" ->
            Text(<<"d", "a", "t", "e", "t", "i", "m", "e", "6", "4", "[", "n", "s", "]">>)

(***************************************************************************)
(* DataProfiler._convert_to_serializable, on scalars and lists.            *)
(***************************************************************************)
\* lines 30-35: a numpy float
SerializeNpFloat(o) ==
    IF IsNaNNumber(o.v) THEN None
    ELSE IF IsInfNumber(o.v) THEN PyStr(StrOf(o))
    ELSE PyFloat(o.v)

\* lines 26-29: a numpy integer
SerializeNpInt(o) == PyInt(o.v)

RECURSIVE _convert_to_serializable(_)
_convert_to_serializable(obj) ==
    CASE obj.t = "np.int64" -> SerializeNpInt(obj)
      [] obj.t = "np.float64" -> SerializeNpFloat(obj)
      \* lines 44-45: every key becomes str(k)
      [] obj.t = "dict" ->
            PyDict([i \in 1..Len(obj.v) |->
                       [k |-> PyStr(StrOf(obj.v[i].k)),
                        v |-> _convert_to_serializable(obj.v[i].v)]])
      \* lines 46-47: a list or a tuple becomes a list
      [] obj.t \in {"list", "tuple"} ->
            PyList([i \in 1..Len(obj.v) |-> _convert_to_serializable(obj.v[i])])
      [] obj.t = "Timestamp" -> PyStr(IsoFormat(obj.v))
      \* lines 48-49: NaT is a datetime, and its isoformat() is 'NaT'
      [] obj.t = "NaT" -> PyStr(StrOf(obj))
      [] obj.t = "None" -> None
      [] obj.t = "float" -> IF IsNaNNumber(obj.v) THEN None ELSE obj
      [] obj.t \in {"str", "int", "bool"} -> obj
      [] OTHER -> PyStr(StrOf(obj))

(***************************************************************************)
(* DataProfiler._ensure_json_serializable                                  *)
(***************************************************************************)
\* json.dumps(obj) returns: it writes None, bool, int, float (NaN and the
\* infinities too, allow_nan being on), numpy.float64 (a subclass of float),
\* str, and lists, tuples and dicts of them; a dict key is a str, an int, a
\* float, a bool or None.  For any other object it raises TypeError.
RECURSIVE JsonDumps(_)
JsonDumps(obj) ==
    CASE obj.t \in {"None", "bool", "int", "float", "np.float64", "str"} -> TRUE
      [] obj.t \in {"list", "tuple"} -> \A i \in 1..Len(obj.v) : JsonDumps(obj.v[i])
      [] obj.t = "dict" ->
            \A i \in 1..Len(obj.v) :
                /\ obj.v[i].k.t \in {"None", "bool", "int", "float", "np.float64", "str"}
                /\ JsonDumps(obj.v[i].v)
      [] OTHER -> FALSE

\* lines 56-62
_ensure_json_serializable(obj) ==
    IF JsonDumps(obj) THEN obj ELSE _convert_to_serializable(obj)

(***************************************************************************)
(* DataProfiler._truncate_string                                           *)
(***************************************************************************)
\* '...'
Ellipsis == Rep(".", 3)

TruncateNoMarker(s, max_length) ==
    IF StrLen(s) > max_length THEN Take(s, max_length) ELSE s

\* s[:max_length] + '...' if len(s) > max_length else s
_truncate_string(s, max_length) ==
    IF StrLen(s) > max_length
    THEN Concat(Take(s, max_length), Ellipsis)
    ELSE s
(***************************************************************************)
(* The statistics of a non-empty series of finite floats (pandas, scipy).  *)
(* The cells of the model are integral, so with n cells of sum S the       *)
(* deviations from the mean are (n * x - S) / n.                           *)
(***************************************************************************)
RECURSIVE SumSeq(_)
SumSeq(xs) == IF xs = <<>> THEN 0 ELSE Head(xs) + SumSeq(Tail(xs))

Ints(non_null) == [i \in 1..Len(non_null) |-> non_null[i].v.n]

\* the n-scaled deviations raised to the power p, summed
RECURSIVE Pow(_, _)
Pow(x, p) == IF p = 0 THEN 1 ELSE x * Pow(x, p - 1)

Moment(xs, p) ==
    SumSeq([i \in 1..Len(xs) |-> Pow(Len(xs) * xs[i] - SumSeq(xs), p)])

\* the k-th smallest element
Kth(xs, k) ==
    CHOOSE v \in {xs[i] : i \in 1..Len(xs)} :
        /\ Cardinality({i \in 1..Len(xs) : xs[i] < v}) < k
        /\ Cardinality({i \in 1..Len(xs) : xs[i] <= v}) >= k

\* non_null.mean()
Mean(xs) == NpFloat(Ratio(SumSeq(xs), Len(xs)))

\* non_null.std(): the sample standard deviation, NaN for one value
Std(xs) ==
    NpFloat(Root(Moment(xs, 2), Len(xs) * Len(xs) * (Len(xs) - 1)))

\* non_null.min(), non_null.max()
MinOf(xs) == NpFloat(Whole(Kth(xs, 1)))
MaxOf(xs) == NpFloat(Whole(Kth(xs, Len(xs))))

\* non_null.median()
Median(xs) ==
    LET n == Len(xs)
    IN  IF n % 2 = 1 THEN NpFloat(Whole(Kth(xs, (n + 1) \div 2)))
        ELSE NpFloat(Ratio(Kth(xs, n \div 2) + Kth(xs, n \div 2 + 1), 2))

\* scipy.stats.skew: m3 / m2 ^ 1.5, NaN for a constant series
Skew(xs) ==
    LET m2 == Moment(xs, 2)
        m3 == Moment(xs, 3)
        sg == IF m3 < 0 THEN -1 ELSE 1
    IN  IF m2 = 0 THEN NpFloat(NaN)
        ELSE NpFloat(Root(sg * Len(xs) * m3 * m3, m2 * m2 * m2))

\* scipy.stats.kurtosis: m4 / m2 ^ 2 - 3, NaN for a constant series
Kurtosis(xs) ==
    LET m2 == Moment(xs, 2)
        m4 == Moment(xs, 4)
    IN  IF m2 = 0 THEN NpFloat(NaN)
        ELSE NpFloat(Ratio(Len(xs) * m4 - 3 * m2 * m2, m2 * m2))

(***************************************************************************)
(* DataProfiler._profile_column                                            *)
(***************************************************************************)
Returned(v) == [status |-> "returned", exc |-> "none", value |-> v]
Raised(exc, msg) == [status |-> "raised", exc |-> exc, value |-> msg]

EmptyProfileZeroPercent(series) ==
    [data_type |-> PyStr(DtypeText(series.dtype)),
     missing_count |-> PyInt(Len(series.values)),
     missing_percentage |-> PyFloat(Whole(0)),
     unique_count |-> PyInt(0),
     top_values |-> <<>>]

\* lines 83-89: the profile of an empty or all-null column
EmptyProfile(series) ==
    [data_type |-> PyStr(DtypeText(series.dtype)),
     missing_count |-> PyInt(Len(series.values)),
     missing_percentage |-> PyFloat(Whole(100)),
     unique_count |-> PyInt(0),
     top_values |-> <<>>]

TopKeyNeverTruncated(k) == StrOf(k)

\* lines 98-100: the key of one of the top values
TopKey(k) ==
    IF k.t = "str" /\ StrLen(k.v) > MaxLength
    THEN _truncate_string(k.v, MaxLength)
    ELSE StrOf(k)

\* lines 96-101: the dict filled in the order of value_counts().head(5); of
\* two cells with the same key the later one, which is not the more
\* frequent one, stays
TopValues(values, top) ==
    [key \in {TopKey(k) : k \in top} |->
        LET same == {k \in top : TopKey(k) = key}
            last == CHOOSE k \in same :
                        \A o \in same : CountOf(values, k) <= CountOf(values, o)
        IN  _convert_to_serializable(NpInt(CountOf(values, last)))]

\* line 105
MissingCount(values) == _convert_to_serializable(NpInt(IsNaSum(values)))

MissingPercentageOfNonNull(values) ==
    _convert_to_serializable(
        NpFloat(Ratio((Len(values) - IsNaSum(values)) * 100, Len(values))))

\* line 106: missing_count / total_count * 100 if total_count > 0 else 0
MissingPercentage(values) ==
    IF Len(values) > 0
    THEN _convert_to_serializable(NpFloat(Ratio(IsNaSum(values) * 100, Len(values))))
    ELSE _convert_to_serializable(PyInt(0))

NumericStatsEstimatorsFromTwo(non_null) ==
    LET xs == Ints(non_null)
    IN  [mean |-> _convert_to_serializable(Mean(xs)),
         std |-> _convert_to_serializable(Std(xs)),
         min |-> _convert_to_serializable(MinOf(xs)),
         max |-> _convert_to_serializable(MaxOf(xs)),
         median |-> _convert_to_serializable(Median(xs)),
         skewness |-> _convert_to_serializable(
             IF Len(xs) > 1 THEN Skew(xs) ELSE PyInt(0)),
         kurtosis |-> _convert_to_serializable(
             IF Len(xs) > 1 THEN Kurtosis(xs) ELSE PyInt(0))]

\* lines 114-122
NumericStats(non_null) ==
    LET xs == Ints(non_null)
    IN  [mean |-> _convert_to_serializable(Mean(xs)),
         std |-> _convert_to_serializable(Std(xs)),
         min |-> _convert_to_serializable(MinOf(xs)),
         max |-> _convert_to_serializable(MaxOf(xs)),
         median |-> _convert_to_serializable(Median(xs)),
         skewness |-> _convert_to_serializable(
             IF Len(xs) > MinEstimatorLen THEN Skew(xs) ELSE PyInt(0)),
         kurtosis |-> _convert_to_serializable(
             IF Len(xs) > MinEstimatorLen THEN Kurtosis(xs) ELSE PyInt(0))]

Days(non_null) == [i \in 1..Len(non_null) |-> non_null[i].v]

\* lines 127-131
TemporalStats(non_null) ==
    LET ds == Days(non_null)
    IN  [min_date |-> _convert_to_serializable(Timestamp(Kth(ds, 1))),
         max_date |-> _convert_to_serializable(Timestamp(Kth(ds, Len(ds)))),
         date_range_days |-> PyInt(Kth(ds, Len(ds)) - Kth(ds, 1))]

HasNumericStatsByDtype(column, non_null) ==
    IsNumberDtype(Column(df, column)) /\ Len(non_null) > 0

\* lines 111-113: column in self.numeric_cols, and len(non_null) > 0
HasNumericStats(column, non_null) ==
    InSeq(column, numeric_cols) /\ Len(non_null) > 0

\* lines 124-126: column in self.datetime_cols, and len(non_null) > 0
HasTemporalStats(column, non_null) ==
    InSeq(column, datetime_cols) /\ Len(non_null) > 0

\* lines 77-133; top is the value of value_counts().head(5)
_profile_column(column, top) ==
    LET series == Column(df, column)
        values == series.values
        non_null == DropNa(values)
    IN  IF Len(values) = 0 \/ IsNaAll(values)
        THEN Returned(EmptyProfile(series))
        ELSE IF HashRaises(values)
        THEN Raised("TypeError", "unhashable type: 'list'")
        ELSE IF HasNumericStats(column, non_null) /\ HoldsStr(non_null)
        THEN Raised("TypeError", "Could not convert string to numeric")
        ELSE Returned(
            [data_type |-> PyStr(DtypeText(series.dtype)),
             missing_count |-> MissingCount(values),
             missing_percentage |-> MissingPercentage(values),
             unique_count |-> _convert_to_serializable(PyInt(NUnique(values))),
             top_values |-> TopValues(values, top)]
            @@ (IF HasNumericStats(column, non_null)
                THEN [numeric_stats |-> NumericStats(non_null)]
                ELSE <<>>)
            @@ (IF HasTemporalStats(column, non_null)
                THEN [temporal_stats |-> TemporalStats(non_null)]
                ELSE <<>>))

\* the values value_counts().head(5) can take for a column
Heads(column) ==
    LET values == Column(df, column).values
    IN  IF HashRaises(values) THEN {{}} ELSE HeadsOf(values, TopN)
\* lines 64-71: the profiles of all columns, in column order; heads[c] is
\* the value of value_counts().head(5) for column c.  The first column that
\* raises ends the call.
generate_profile(heads) ==
    LET raising == {i \in 1..Len(df) :
                       _profile_column(df[i].name, heads[df[i].name]).status = "raised"}
    IN  IF raising # {}
        THEN LET first == CHOOSE i \in raising : \A j \in raising : i <= j
             IN  _profile_column(df[first].name, heads[df[first].name])
        ELSE Returned([c \in ColumnNames(df) |-> _profile_column(c, heads[c]).value])

(***************************************************************************)
(* DataProfiler.generate_specific_visualization                            *)
(*                                                                         *)
(* The charts are built by plotly and pandas (px.histogram, px.bar,        *)
(* px.line, DataFrame.corr, px.imshow, fig.to_dict).  What they do with    *)
(* the data is not the profiler's code: a call either returns the figure   *)
(* or raises, and what it raises is a ValueError (pandas' "could not       *)
(* convert string to float", plotly's argument errors) or another          *)
(* exception.  chart is that outcome.                                      *)
(***************************************************************************)
ChartOutcomes == {"figure", "ValueError", "TypeError"}

SupportedTypes == {"histogram", "bar", "line", "correlation"}

\* Optional[List[str]]
NoColumns == [is_none |-> TRUE, list |-> <<>>]
Columns(names) == [is_none |-> FALSE, list |-> names]

\* fig.to_dict(), after _ensure_json_serializable
Artifact(kind, x) == [data |-> <<[type |-> kind, x |-> x]>>, layout |-> [template |-> "plotly"]]

\* the px call and fig.to_dict()
BuildChart(kind, x, chart) ==
    IF chart = "figure" THEN Returned(Artifact(kind, x))
    ELSE Raised(chart, "chart construction failed")

TypeValidationAcceptsAll(viz_type) == Returned(None)

ChartBranchUnchecked(viz_type, columns, chart) ==
    BuildChart(viz_type, IF viz_type = "correlation" THEN "Features" ELSE columns.list[1], chart)

\* lines 246-247
TypeValidation(viz_type) ==
    IF viz_type \notin SupportedTypes
    THEN Raised("ValueError", "Unsupported visualization type: " \o viz_type)
    ELSE Returned(None)

\* lines 250-252: not columns or not columns[0] in self.df.columns
ColumnValidation(viz_type, columns) ==
    IF viz_type # "correlation"
       /\ (columns.is_none \/ columns.list = <<>>
           \/ columns.list[1] \notin ColumnNames(df))
    THEN Raised("ValueError", "Invalid column specified")
    ELSE Returned(None)

\* lines 254-292: the branch of the validated request
ChartBranch(viz_type, columns, chart) ==
    CASE viz_type \in {"histogram", "line"} ->
            LET values == Column(df, columns.list[1]).values
            IN  IF HashRaises(values)
                THEN Raised("TypeError", "unhashable type: 'list'")
                ELSE IF NUnique(values) <= 1
                THEN Raised("RuntimeError", "Insufficient variation for visualization")
                ELSE BuildChart(viz_type, columns.list[1], chart)
      [] viz_type = "bar" ->
            LET values == Column(df, columns.list[1]).values
            IN  IF HashRaises(values)
                THEN Raised("TypeError", "unhashable type: 'list'")
                ELSE IF NUnique(values) = 0
                THEN Raised("RuntimeError", "No data available for visualization")
                ELSE BuildChart(viz_type, "category", chart)
      [] viz_type = "correlation" ->
            IF Len(numeric_cols) <= 1
            THEN Raised("RuntimeError", "Insufficient numeric columns for correlation")
            ELSE IF NRows(df) <= 1
            THEN Raised("RuntimeError", "Insufficient data for correlation")
            ELSE IF \E i \in 1..Len(numeric_cols) :
                        HoldsStr(Column(df, numeric_cols[i]).values)
            THEN Raised("ValueError",
                        "could not convert string to float: 'not_a_number'")
            ELSE BuildChart(viz_type, "Features", chart)
      \* no branch is taken: the function ends and returns None
      [] OTHER -> Returned(None)

\* lines 245-292: the body of the try block
TryBlock(viz_type, columns, chart) ==
    IF TypeValidation(viz_type).status = "raised" THEN TypeValidation(viz_type)
    ELSE IF ColumnValidation(viz_type, columns).status = "raised"
    THEN ColumnValidation(viz_type, columns)
    ELSE ChartBranch(viz_type, columns, chart)

\* lines 294-299: a ValueError is raised again as it is, any other
\* exception becomes a RuntimeError that carries its message
ExceptClauses(outcome) ==
    IF outcome.status = "raised" /\ outcome.exc # "ValueError"
    THEN Raised("RuntimeError", "Failed to generate visualization: " \o outcome.value)
    ELSE outcome

\* lines 242-299
generate_specific_visualization(viz_type, columns, chart) ==
    ExceptClauses(TryBlock(viz_type, columns, chart))

(***************************************************************************)
(* DataProfiler.generate_visualizations                                    *)
(*                                                                         *)
(* The pass is a sequence of steps: one for every column of numeric_cols,  *)
(* of categorical_cols and of datetime_cols, in this order, and one for    *)
(* the correlation matrix.  A step reads the data, which can raise (pre is *)
(* the exception, msg its message), and then, if the data asks for it      *)
(* (wanted), builds the chart it stores under key.  chart is the outcome   *)
(* of the plotly calls of the pass.                                        *)
(***************************************************************************)
Step(key, kind, x, pre, msg, wanted) ==
    [key |-> key, kind |-> kind, x |-> x, pre |-> pre, msg |-> msg, wanted |-> wanted]

HistogramWantedAlways(col) == TRUE

\* line 142: self.df[col].nunique() > 1
HistogramWanted(col) == NUnique(Column(df, col).values) > 1

BarWantedAnyCount(col) == NUnique(Column(df, col).values) > 0

BarWantedEmpty(col) == NUnique(Column(df, col).values) <= MaxCategories

\* line 150: len(value_counts) > 0 and len(value_counts) <= 20
BarWanted(col) ==
    /\ NUnique(Column(df, col).values) > 0
    /\ NUnique(Column(df, col).values) <= MaxCategories

\* line 161: self.df[col].nunique() > 1
LineWanted(col) == NUnique(Column(df, col).values) > 1

\* line 169: len(self.numeric_cols) > 1 and len(self.df) > 1
HeatmapWanted == Len(numeric_cols) > 1 /\ NRows(df) > 1

\* lines 141-145
NumericSteps ==
    [i \in 1..Len(numeric_cols) |->
        Step(numeric_cols[i] \o "_histogram", "histogram", numeric_cols[i],
             "none", "", HistogramWanted(numeric_cols[i]))]

\* lines 148-157: value_counts() hashes the cells
CategoricalSteps ==
    [i \in 1..Len(categorical_cols) |->
        IF HashRaises(Column(df, categorical_cols[i]).values)
        THEN Step(categorical_cols[i] \o "_bar", "bar", "category",
                  "TypeError", "unhashable type: 'list'", FALSE)
        ELSE Step(categorical_cols[i] \o "_bar", "bar", "category",
                  "none", "", BarWanted(categorical_cols[i]))]

\* lines 160-166
DatetimeSteps ==
    [i \in 1..Len(datetime_cols) |->
        Step(datetime_cols[i] \o "_line", "line", datetime_cols[i],
             "none", "", LineWanted(datetime_cols[i]))]

\* lines 169-178: DataFrame.corr() needs numbers
HeatmapStep ==
    IF ~HeatmapWanted
    THEN Step("correlation_heatmap", "correlation", "Features", "none", "", FALSE)
    ELSE IF \E i \in 1..Len(numeric_cols) : HoldsStr(Column(df, numeric_cols[i]).values)
    THEN Step("correlation_heatmap", "correlation", "Features", "ValueError",
              "could not convert string to float: 'not_a_number'", FALSE)
    ELSE Step("correlation_heatmap", "correlation", "Features", "none", "", TRUE)

Steps == NumericSteps \o CategoricalSteps \o DatetimeSteps \o <<HeatmapStep>>

\* the step raises: reading the data does, or the plotly call does
StepRaises(step, chart) == step.pre # "none" \/ (step.wanted /\ chart # "figure")

\* str(e) of the exception the step raises
StepMessage(step) == IF step.pre # "none" THEN step.msg ELSE "chart construction failed"

\* visualizations after the first n steps
Visualizations(steps, n) ==
    [key \in {steps[i].key : i \in {j \in 1..n : steps[j].wanted}} |->
        LET step == steps[CHOOSE i \in 1..n : steps[i].key = key]
        IN  Artifact(step.kind, step.x)]

GenerateVisualizationsPartial(chart) ==
    LET raising == {i \in 1..Len(Steps) : StepRaises(Steps[i], chart)}
    IN  IF raising = {} THEN Returned(Visualizations(Steps, Len(Steps)))
        ELSE Returned(Visualizations(Steps,
                 (CHOOSE i \in raising : \A j \in raising : i <= j) - 1))

\* lines 135-183: the first step that raises ends the pass, and lines
\* 179-181 raise a RuntimeError in place of what was built
generate_visualizations(chart) ==
    LET raising == {i \in 1..Len(Steps) : StepRaises(Steps[i], chart)}
    IN  IF raising = {} THEN Returned(Visualizations(Steps, Len(Steps)))
        ELSE LET first == CHOOSE i \in raising : \A j \in raising : i <= j
             IN  Raised("RuntimeError",
                        "Failed to generate visualizations: " \o StepMessage(Steps[first]))

(***************************************************************************)
(* DataProfiler.generate_summary                                           *)
(***************************************************************************)
\* sep.join(parts)
RECURSIVE Join(_, _)
Join(parts, sep) ==
    IF parts = <<>> THEN ""
    ELSE IF Len(parts) = 1 THEN parts[1]
    ELSE parts[1] \o sep \o Join(Tail(parts), sep)

\* a part that is there if its condition holds
Part(condition, text) == IF condition THEN <<text>> ELSE <<>>

\* lines 190-192
BasicInformation ==
    "This dataset has " \o ToString(NRows(df)) \o " rows and "
        \o ToString(Len(df)) \o " columns."

\* lines 195-201
TypeCounts ==
    Part(Len(numeric_cols) > 0, ToString(Len(numeric_cols)) \o " numeric columns")
    \o Part(Len(categorical_cols) > 0,
            ToString(Len(categorical_cols)) \o " categorical columns")
    \o Part(Len(datetime_cols) > 0, ToString(Len(datetime_cols)) \o " datetime columns")

\* line 208: 'text' in str(dtype).lower(); the name of no dtype of the
\* model holds 'text'
IsTextDtype(dtype) == dtype \in {"text"}

\* the characters outside of ASCII: the code points of the cells of the
\* tests (line 27)
NonAscii == {"U+D55C", "U+AE00", "U+1F31F"}

\* line 210: astype(str).str.contains('[^\x00-\x7F]').any(); of the cells of
\* the model only a str can hold a character outside of ASCII
HasSpecialCharacters(values) ==
    \E i \in 1..Len(values) :
        /\ values[i].t = "str"
        /\ \E j \in 1..Len(values[i].v) : values[i].v[j].c \in NonAscii

\* lines 207-211
SpecialTypes ==
    Part(\E i \in 1..Len(df) : IsTextDtype(df[i].dtype), "text")
    \o Part(\E i \in 1..Len(df) : HasSpecialCharacters(df[i].values),
            "special characters")

\* line 216: self.df.isna().sum().sum()
TotalMissing == SumSeq([i \in 1..Len(df) |-> IsNaSum(df[i].values)])

\* line 223: the columns that are empty
EmptyCols == SelectSeq(df, LAMBDA col : Len(col.values) = 0)

\* The correlation of two columns, over the rows where both hold a number
\* (DataFrame.corr drops the others pair by pair): num / sqrt(den2), and
\* NaN if den2 = 0 (fewer than two rows left, or a column without variation).
BothPresent(pair) == NotNa(pair[1]) /\ NotNa(pair[2])

Corr(a, b) ==
    LET pairs == SelectSeq([r \in 1..Len(a) |-> <<a[r], b[r]>>], BothPresent)
        n == Len(pairs)
        xs == [i \in 1..n |-> pairs[i][1].v.n]
        ys == [i \in 1..n |-> pairs[i][2].v.n]
        dev(us, vs) == n * SumSeq([i \in 1..n |-> us[i] * vs[i]]) - SumSeq(us) * SumSeq(vs)
    IN  [num |-> dev(xs, ys), den2 |-> dev(xs, xs) * dev(ys, ys)]

\* line 230: np.abs(corr) > 0.8, false for NaN
Strong(r) == r.den2 > 0 /\ 25 * r.num * r.num > 16 * r.den2

\* |r| in hundredths, rounded
Hundredths(r) ==
    CHOOSE k \in 0..100 :
        /\ k = 0 \/ (2 * k - 1) * (2 * k - 1) * r.den2 <= 40000 * r.num * r.num
        /\ 40000 * r.num * r.num < (2 * k + 1) * (2 * k + 1) * r.den2

\* f"{float(r):.2f}"
Fixed2(r) ==
    (IF r.num < 0 THEN "-" ELSE "")
    \o ToString(Hundredths(r) \div 100) \o "."
    \o (IF Hundredths(r) % 100 < 10 THEN "0" ELSE "") \o ToString(Hundredths(r) % 100)

\* corr_matrix.iloc[x, y]
CorrAt(x, y) ==
    Corr(Column(df, numeric_cols[x]).values, Column(df, numeric_cols[y]).values)

HighCorrPairsWithSelf ==
    SelectSeq([k \in 1..(Len(numeric_cols) * Len(numeric_cols)) |->
                  <<((k - 1) \div Len(numeric_cols)) + 1, ((k - 1) % Len(numeric_cols)) + 1>>],
              LAMBDA pair : Strong(CorrAt(pair[1], pair[2])))

\* lines 230-232: the cells of the matrix above 0.8 in row-major order,
\* without the diagonal
HighCorrPairs ==
    SelectSeq([k \in 1..(Len(numeric_cols) * Len(numeric_cols)) |->
                  <<((k - 1) \div Len(numeric_cols)) + 1, ((k - 1) % Len(numeric_cols)) + 1>>],
              LAMBDA pair : pair[1] # pair[2] /\ Strong(CorrAt(pair[1], pair[2])))

\* lines 234-238
CorrelationInsight ==
    IF HighCorrPairs = <<>> THEN <<>>
    ELSE LET pair == HighCorrPairs[1]
         IN  <<"There is a strong correlation (" \o Fixed2(CorrAt(pair[1], pair[2]))
               \o ") between " \o numeric_cols[pair[1]]
               \o " and " \o numeric_cols[pair[2]] \o ".">>

SummaryPartsMissingFirst ==
    <<BasicInformation>>
    \o Part(TotalMissing > 0,
            "There are " \o ToString(TotalMissing) \o " missing values across all columns.")
    \o Part(TypeCounts # <<>>, "It contains " \o Join(TypeCounts, ", ") \o ".")
    \o Part(SpecialTypes # <<>>,
            "The dataset includes " \o Join(SpecialTypes, " and ") \o " data.")
    \o Part(EmptyCols # <<>>,
            "There are " \o ToString(Len(EmptyCols)) \o " empty columns.")

\* the parts of lines 190-225
SummaryParts ==
    <<BasicInformation>>
    \o Part(TypeCounts # <<>>, "It contains " \o Join(TypeCounts, ", ") \o ".")
    \o Part(SpecialTypes # <<>>,
            "The dataset includes " \o Join(SpecialTypes, " and ") \o " data.")
    \o Part(TotalMissing > 0,
            "There are " \o ToString(TotalMissing) \o " missing values across all columns.")
    \o Part(EmptyCols # <<>>,
            "There are " \o ToString(Len(EmptyCols)) \o " empty columns.")

\* lines 185-240; DataFrame.corr() raises on a text, and nothing catches it
generate_summary ==
    IF Len(numeric_cols) > 1 /\ NRows(df) > 1
    THEN IF \E i \in 1..Len(numeric_cols) : HoldsStr(Column(df, numeric_cols[i]).values)
         THEN Raised("ValueError", "could not convert string to float: 'not_a_number'")
         ELSE Returned(Join(SummaryParts \o CorrelationInsight, " "))
    ELSE Returned(Join(SummaryParts, " "))

(***************************************************************************)
(* The state machine: a profiler built over a DataFrame, and the request   *)
(* made of it.  main.py builds a new DataProfiler for every HTTP request   *)
(* (lines 89, 105, 136), so a profiler answers from its initial state.     *)
(***************************************************************************)
NoRequest ==
    [op |-> "none", column |-> "", viz_type |-> "", columns |-> NoColumns,
     chart |-> "none", obj |-> None]
NoResponse == [status |-> "none", exc |-> "none", value |-> None]

\* the requests of the model: one unsupported type, and column arguments
\* that are absent, empty, a column of the DataFrame or no column of it
VizTypes == SupportedTypes \cup {"pie"}
ColumnArgs ==
    {NoColumns, Columns(<<>>), Columns(<<"nope">>)}
    \cup {Columns(<<df[i].name>>) : i \in 1..Len(df)}

\* 'not_a_number' (tests, line 319)
NotANumber ==
    PyStr(Text(<<"n", "o", "t", "_", "a", "_", "n", "u", "m", "b", "e", "r">>))

\* a cell of a column that became an object column
AsObject(o) == IF o.t = "np.float64" THEN PyFloat(o.v) ELSE o

\* df.loc[row, column] = 'not_a_number'
SetCellOf(frame, column, row) ==
    [i \in 1..Len(frame) |->
        IF frame[i].name # column THEN frame[i]
        ELSE [name |-> column,
              dtype |-> "object",
              values |-> [j \in 1..Len(frame[i].values) |->
                             IF j = row THEN NotANumber
                             ELSE AsObject(frame[i].values[j])]]]

\* lines 14-22
Init ==
    /\ df \in DataFrames
    /\ numeric_cols = NumericCols(df)
    /\ categorical_cols = CategoricalCols(df)
    /\ datetime_cols = DatetimeCols(df)
    /\ request = NoRequest
    /\ head = <<>>
    /\ response = NoResponse

ProfileColumn ==
    /\ request = NoRequest
    /\ \E column \in ColumnNames(df) : \E top \in Heads(column) :
          /\ request' = [NoRequest EXCEPT !.op = "_profile_column", !.column = column]
          /\ head' = (column :> top)
          /\ response' = _profile_column(column, top)
    /\ UNCHANGED <<df, numeric_cols, categorical_cols, datetime_cols>>

GenerateProfile ==
    /\ request = NoRequest
    /\ \E heads \in [ColumnNames(df) -> UNION {Heads(c) : c \in ColumnNames(df)}] :
          /\ \A c \in ColumnNames(df) : heads[c] \in Heads(c)
          /\ request' = [NoRequest EXCEPT !.op = "generate_profile"]
          /\ head' = heads
          /\ response' = generate_profile(heads)
    /\ UNCHANGED <<df, numeric_cols, categorical_cols, datetime_cols>>

\* The caller writes a text into a cell of a numeric column of the
\* profiler's DataFrame (tests, lines 311-319).  The column becomes an object
\* column; numeric_cols, built by __init__, still names it.
SetCell ==
    /\ request = NoRequest
    /\ \E i \in 1..Len(numeric_cols) :
          /\ Column(df, numeric_cols[i]).dtype = "float64"
          /\ \E row \in 1..NRows(df) : df' = SetCellOf(df, numeric_cols[i], row)
    /\ UNCHANGED <<numeric_cols, categorical_cols, datetime_cols, request, head, response>>

GenerateSpecificVisualization ==
    /\ request = NoRequest
    /\ \E viz_type \in VizTypes : \E columns \in ColumnArgs : \E chart \in ChartOutcomes :
          /\ request' = [NoRequest EXCEPT !.op = "generate_specific_visualization",
                                          !.viz_type = viz_type,
                                          !.columns = columns,
                                          !.chart = chart]
          /\ response' = generate_specific_visualization(viz_type, columns, chart)
    /\ UNCHANGED <<df, numeric_cols, categorical_cols, datetime_cols, head>>

GenerateSummary ==
    /\ request = NoRequest
    /\ request' = [NoRequest EXCEPT !.op = "generate_summary"]
    /\ response' = generate_summary
    /\ UNCHANGED <<df, numeric_cols, categorical_cols, datetime_cols, head>>

GenerateVisualizations ==
    /\ request = NoRequest
    /\ \E chart \in ChartOutcomes :
          /\ request' = [NoRequest EXCEPT !.op = "generate_visualizations",
                                          !.chart = chart]
          /\ response' = generate_visualizations(chart)
    /\ UNCHANGED <<df, numeric_cols, categorical_cols, datetime_cols, head>>

(***************************************************************************)
(* The serializer reads nothing of the profiler: it is a function of its   *)
(* argument.  Its specification draws the argument and applies one of the  *)
(* two entry points to it.                                                 *)
(***************************************************************************)
\* the scalars: None, NaT, int, bool, str, bytes, the floats of Python and
\* of numpy (finite, NaN, +inf, -inf), a numpy integer, a Timestamp
Scalars ==
    {None, NaT, PyInt(1), PyBool(1), PyStr(Rep("A", 1)), PyBytes(Rep("q", 1)),
     NpInt(1), Timestamp(1)}
    \cup {PyFloat(q) : q \in {Whole(1), NaN, PosInf, NegInf}}
    \cup {NpFloat(q) : q \in {Whole(1), NaN, PosInf, NegInf}}

\* the keys of a dict
DictKeys == {PyStr(Rep("k", 1)), PyInt(1)}

\* the objects nested in at most depth containers: the empty list and dict,
\* and the list, the tuple and the dicts of one object
RECURSIVE Objects(_)
Objects(depth) ==
    IF depth = 0 THEN Scalars
    ELSE Objects(depth - 1)
         \cup {PyList(<<>>), PyDict(<<>>)}
         \cup {PyList(<<o>>) : o \in Objects(depth - 1)}
         \cup {PyTuple(<<o>>) : o \in Objects(depth - 1)}
         \cup {PyDict(<<[k |-> key, v |-> o]>>) :
                   key \in DictKeys, o \in Objects(depth - 1)}

SerializerInit ==
    /\ df = <<>>
    /\ numeric_cols = <<>>
    /\ categorical_cols = <<>>
    /\ datetime_cols = <<>>
    /\ request \in {[NoRequest EXCEPT !.obj = obj] : obj \in Objects(MaxDepth)}
    /\ head = <<>>
    /\ response = NoResponse

ConvertToSerializable ==
    /\ request.op = "none"
    /\ request' = [request EXCEPT !.op = "_convert_to_serializable"]
    /\ response' = Returned(_convert_to_serializable(request.obj))
    /\ UNCHANGED <<df, numeric_cols, categorical_cols, datetime_cols, head>>

EnsureJsonSerializable ==
    /\ request.op = "none"
    /\ request' = [request EXCEPT !.op = "_ensure_json_serializable"]
    /\ response' = Returned(_ensure_json_serializable(request.obj))
    /\ UNCHANGED <<df, numeric_cols, categorical_cols, datetime_cols, head>>

SerializerNext == ConvertToSerializable \/ EnsureJsonSerializable

SerializerSpec == SerializerInit /\ [][SerializerNext]_vars

Next ==
    \/ GenerateSummary
    \/ SetCell
    \/ ProfileColumn
    \/ GenerateProfile
    \/ GenerateSpecificVisualization
    \/ GenerateVisualizations

Spec == Init /\ [][Next]_vars

(***************************************************************************)
(* What the claims speak of.                                               *)
(***************************************************************************)
\* the call made was a profiling call that covers column c
ProfileAsked(c) ==
    \/ request.op = "_profile_column" /\ request.column = c
    \/ request.op = "generate_profile" /\ c \in ColumnNames(df)

\* the call returned a profile of column c
HasProfile(c) == ProfileAsked(c) /\ response.status = "returned"

ProfileOf(c) ==
    IF request.op = "_profile_column" THEN response.value ELSE response.value[c]

BaseKeys == {"data_type", "missing_count", "missing_percentage", "unique_count", "top_values"}

Nested == {"top_values", "numeric_stats", "temporal_stats"}

\* a str, a plain finite number, a bool or None
JsonSafeScalar(o) ==
    /\ o.t \in {"None", "int", "float", "bool", "str"}
    /\ o.t = "float" => IsFinite(o.v)

\* a profile made of JSON-safe scalars and of mappings of them
JsonSafeProfile(p) ==
    \A f \in DOMAIN p :
        IF f \in Nested THEN \A k \in DOMAIN p[f] : JsonSafeScalar(p[f][k])
        ELSE JsonSafeScalar(p[f])

(***************************************************************************)
(* C1.  For every DataFrame and every column of it, _profile_column        *)
(* returns (it never raises), and the profile it returns holds JSON-safe   *)
(* values only.                                                            *)
(* The code raises for a column that holds an unhashable cell.             *)
(***************************************************************************)
C1_ProfileTotalAndJsonSafe ==
    \A c \in ColumnNames(df) :
        ProfileAsked(c) =>
            /\ response.status = "returned"
            /\ JsonSafeProfile(ProfileOf(c))

(***************************************************************************)
(* C2.  The profile of a column with zero rows, or with null cells only,   *)
(* has exactly the five base keys, missing_count = the row count,          *)
(* missing_percentage = 100.0, unique_count = 0 and no top value, whatever *)
(* the dtype of the column.                                                *)
(***************************************************************************)
C2_EmptyOrAllNullProfile ==
    \A c \in ColumnNames(df) :
        LET values == Column(df, c).values
        IN  Len(values) = 0 \/ IsNaAll(values) =>
                /\ request.op = "_profile_column" /\ request.column = c
                      => response.status = "returned"
                /\ HasProfile(c) =>
                      /\ DOMAIN ProfileOf(c) = BaseKeys
                      /\ ProfileOf(c).missing_count = PyInt(Len(values))
                      /\ ProfileOf(c).missing_percentage = PyFloat(Whole(100))
                      /\ ProfileOf(c).unique_count = PyInt(0)
                      /\ DOMAIN ProfileOf(c).top_values = {}

\* an all-null column of three rows has been profiled
C2_Witness ==
    \E c \in ColumnNames(df) :
        /\ HasProfile(c)
        /\ request.op = "_profile_column"
        /\ Len(Column(df, c).values) = 3
        /\ IsNaAll(Column(df, c).values)
        /\ Column(df, c).dtype = "float64"

(***************************************************************************)
(* C3.  For a column with a non-null cell, missing_count is the number of  *)
(* null cells and missing_percentage is missing_count / rows * 100, a      *)
(* number from 0 to 100.                                                   *)
(***************************************************************************)
C3_MissingCountAndPercentage ==
    \A c \in ColumnNames(df) :
        LET values == Column(df, c).values
            nulls == Cardinality({i \in 1..Len(values) : IsNa(values[i])})
        IN  HasProfile(c) /\ ~IsNaAll(values) =>
                LET p == ProfileOf(c)
                IN  /\ p.missing_count = PyInt(nulls)
                    /\ p.missing_percentage.t = "float"
                    /\ p.missing_percentage.v.r = 1
                    /\ p.missing_percentage.v.d > 0
                    /\ p.missing_percentage.v.n * Len(values)
                          = nulls * 100 * p.missing_percentage.v.d
                    /\ p.missing_percentage.v.n >= 0
                    /\ p.missing_percentage.v.n <= 100 * p.missing_percentage.v.d

\* six rows, one of them null: missing_count 1 and 16.67 per cent (50/3)
C3_Witness ==
    \E c \in ColumnNames(df) :
        /\ HasProfile(c)
        /\ Len(Column(df, c).values) = 6
        /\ ProfileOf(c).missing_count = PyInt(1)
        /\ ProfileOf(c).missing_percentage = PyFloat(Ratio(50, 3))
        /\ (ProfileOf(c).missing_percentage.v.n * 100)
              \div ProfileOf(c).missing_percentage.v.d = 1666

ExtremeValues == <<NpFloat(PosInf), NpFloat(NegInf), NpFloat(NaN)>>

IsInfinite(o) ==
    \/ o.t = "float" /\ IsInfNumber(o.v)
    \/ o.t = "str" /\ o.v \in {StrOf(NpFloat(PosInf)), StrOf(NpFloat(NegInf))}

Shortened(text) == Concat(Take(text, MaxLength), Ellipsis)

LongTextColumn(c) ==
    /\ Column(df, c).dtype = "object"
    /\ \A i \in 1..Len(Column(df, c).values) :
          LET o == Column(df, c).values[i]
          IN  IsNa(o) \/ (o.t = "str" /\ StrLen(o.v) > MaxLength)

C8_SmallSampleEstimatorsZero ==
    \A c \in ColumnNames(df) :
        /\ HasProfile(c)
        /\ InSeq(c, numeric_cols)
        /\ Len(DropNa(Column(df, c).values)) \in {1, 2}
        => /\ "numeric_stats" \in DOMAIN ProfileOf(c)
           /\ ProfileOf(c).numeric_stats.skewness = PyInt(0)
           /\ ProfileOf(c).numeric_stats.kurtosis = PyInt(0)

\* a numeric column of two different values and a null has been profiled
C8_Witness ==
    \E c \in ColumnNames(df) :
        /\ HasProfile(c)
        /\ InSeq(c, numeric_cols)
        /\ Column(df, c).values = <<NpFloat(Whole(1)), NpFloat(Whole(2)), NpFloat(NaN)>>
        /\ ProfileOf(c).numeric_stats.kurtosis = PyInt(0)

(***************************************************************************)
(* C9.  generate_specific_visualization validates first: an unsupported    *)
(* viz_type raises the ValueError of the type check whatever columns is; a *)
(* supported type other than correlation with columns absent, empty or     *)
(* naming no column of the DataFrame raises the ValueError of the column   *)
(* check; so an invalid request never reports a lack of data.              *)
(***************************************************************************)
VizAsked == request.op = "generate_specific_visualization"

BadType == request.viz_type \notin {"histogram", "bar", "line", "correlation"}

BadColumn ==
    /\ request.viz_type \in {"histogram", "bar", "line"}
    /\ \/ request.columns.is_none
       \/ request.columns.list = <<>>
       \/ request.columns.list[1] \notin ColumnNames(df)

C9_ValidationFirst ==
    VizAsked =>
        /\ BadType =>
              response = Raised("ValueError",
                                "Unsupported visualization type: " \o request.viz_type)
        /\ BadColumn => response = Raised("ValueError", "Invalid column specified")

\* an unsupported type was asked for a column without variation, in a
\* DataFrame too small for a correlation: the answer is the ValueError
C9_Witness ==
    /\ VizAsked
    /\ BadType
    /\ request.columns = Columns(<<"x">>)
    /\ Len(df) = 1
    /\ Len(df[1].values) = 1
    /\ ~HashRaises(df[1].values)
    /\ NUnique(df[1].values) <= 1
    /\ response.exc = "ValueError"

(***************************************************************************)
(* C10.  The two kinds of failure stay apart: a ValueError is raised only  *)
(* for an unsupported viz_type or a missing or unknown column, and every   *)
(* failure after validation (a lack of data, an exception thrown while the *)
(* chart is built) is a RuntimeError.                                      *)
(* The code raises again every ValueError of the try block, also the one   *)
(* thrown while the chart is built.                                        *)
(***************************************************************************)
C10_FailureKindsDistinct ==
    VizAsked =>
        /\ response.status = "raised" /\ response.exc = "ValueError"
              => BadType \/ BadColumn
        /\ response.status = "raised" /\ ~BadType /\ ~BadColumn
              => response.exc = "RuntimeError"

(***************************************************************************)
(* C11.  The original statement: a validated request fails with a          *)
(* RuntimeError exactly when the data is insufficient (histogram or line   *)
(* on a column of at most one distinct non-null value, bar on a column     *)
(* without a non-null value, correlation with at most one numeric column   *)
(* or at most one row); in every other case, unless the construction of    *)
(* the chart raises, it returns one artifact with 'data' and 'layout'.     *)
(***************************************************************************)
VizValid == VizAsked /\ ~BadType /\ ~BadColumn

\* the column the validated request names
Target == Column(df, request.columns.list[1]).values

Insufficient ==
    \/ request.viz_type \in {"histogram", "line"} /\ NUnique(Target) <= 1
    \/ request.viz_type = "bar" /\ NUnique(Target) = 0
    \/ request.viz_type = "correlation" /\ (Len(numeric_cols) <= 1 \/ NRows(df) <= 1)

\* the construction of the chart raised: DataFrame.corr() or a plotly call
ChartRaised ==
    \/ request.chart # "figure"
    \/ /\ request.viz_type = "correlation"
       /\ \E i \in 1..Len(numeric_cols) : HoldsStr(Column(df, numeric_cols[i]).values)

IsArtifact(v) == DOMAIN v = {"data", "layout"}

Countable == request.viz_type = "correlation" \/ ~HashRaises(Target)

\* the RuntimeError of a rule passes through the handler of lines 297-299
InsufficiencyMessage ==
    "Failed to generate visualization: " \o
    (CASE request.viz_type \in {"histogram", "line"} ->
            "Insufficient variation for visualization"
       [] request.viz_type = "bar" -> "No data available for visualization"
       [] Len(numeric_cols) <= 1 -> "Insufficient numeric columns for correlation"
       [] OTHER -> "Insufficient data for correlation")

GvAsked == request.op = "generate_visualizations"

GvReturned == GvAsked /\ response.status = "returned"

\* the keys of the mapping returned
Keys == DOMAIN response.value

Distinct(c) == NUnique(Column(df, c).values)

NoHeatmapWithoutData ==
    Len(numeric_cols) < 2 \/ NRows(df) < 2 => "correlation_heatmap" \notin Keys

Members(seq) == {seq[i] : i \in 1..Len(seq)}

ExpectedKeys ==
    {c \o "_histogram" : c \in {n \in Members(numeric_cols) : Distinct(n) > 1}}
    \cup {c \o "_bar" :
             c \in {n \in Members(categorical_cols) : Distinct(n) \in 1..20}}
    \cup {c \o "_line" : c \in {n \in Members(datetime_cols) : Distinct(n) > 1}}
    \cup (IF Len(numeric_cols) >= 2 /\ NRows(df) >= 2
          THEN {"correlation_heatmap"} ELSE {})

CountFails == \E c \in Members(categorical_cols) : HashRaises(Column(df, c).values)

CorrFails ==
    /\ Len(numeric_cols) > 1 /\ NRows(df) > 1
    /\ \E c \in Members(numeric_cols) : HoldsStr(Column(df, c).values)

PlotFails == request.chart # "figure" /\ ExpectedKeys # {}

Causes ==
    {"unhashable type: 'list'",
     "could not convert string to float: 'not_a_number'",
     "chart construction failed"}

C14_FailureAbortsBatch ==
    GvAsked =>
        IF CountFails \/ CorrFails \/ PlotFails
        THEN /\ response.status = "raised"
             /\ response.exc = "RuntimeError"
             /\ response.value \in
                    {"Failed to generate visualizations: " \o cause : cause \in Causes}
        ELSE response.status = "returned"

\* the two histograms were built, then the correlation matrix failed on
\* the text written into column x
C14_Witness ==
    /\ GvAsked
    /\ request.chart = "figure"
    /\ numeric_cols = <<"x", "y">>
    /\ HoldsStr(Column(df, "x").values)
    /\ Distinct("x") > 1 /\ Distinct("y") > 1
    /\ response = Raised("RuntimeError",
           "Failed to generate visualizations: could not convert string to float: 'not_a_number'")

(***************************************************************************)
(* C20.  The batch and the dispatcher agree on one profiler: when          *)
(* generate_visualizations returns a mapping with '{c}_histogram',         *)
(* '{c}_bar' or '{c}_line' for a column c, or with 'correlation_heatmap',  *)
(* generate_specific_visualization of the corresponding type (with [c],    *)
(* or without columns for correlation) returns an artifact, the plotly     *)
(* calls succeeding as they did in the batch.                              *)
(***************************************************************************)
Dispatched(viz_type, columns) ==
    generate_specific_visualization(viz_type, columns, "figure")

Succeeds(outcome) == outcome.status = "returned" /\ IsArtifact(outcome.value)

C20_BatchImpliesDispatcher ==
    GvReturned =>
        /\ \A c \in ColumnNames(df) :
              /\ c \o "_histogram" \in Keys => Succeeds(Dispatched("histogram", Columns(<<c>>)))
              /\ c \o "_bar" \in Keys => Succeeds(Dispatched("bar", Columns(<<c>>)))
              /\ c \o "_line" \in Keys => Succeeds(Dispatched("line", Columns(<<c>>)))
        /\ "correlation_heatmap" \in Keys => Succeeds(Dispatched("correlation", NoColumns))

\* the batch returned two histograms and the heatmap
C20_Witness ==
    /\ GvReturned
    /\ Keys = {"x_histogram", "y_histogram", "correlation_heatmap"}
    /\ Succeeds(Dispatched("correlation", NoColumns))

(***************************************************************************)
(* C15.  _convert_to_serializable is total and its result is JSON-safe:    *)
(* for every value, of every kind and nesting, it returns a value built    *)
(* of strings, plain finite numbers, booleans, None, lists and dicts with  *)
(* str keys only.                                                          *)
(* The code returns a Python float that is infinite as it is.              *)
(***************************************************************************)
RECURSIVE JsonSafe(_)
JsonSafe(o) ==
    CASE o.t = "list" -> \A i \in 1..Len(o.v) : JsonSafe(o.v[i])
      [] o.t = "dict" ->
            \A i \in 1..Len(o.v) : o.v[i].k.t = "str" /\ JsonSafe(o.v[i].v)
      [] OTHER -> JsonSafeScalar(o)

Converted == request.op = "_convert_to_serializable"

C15_SerializerTotalAndJsonSafe ==
    Converted => response.status = "returned" /\ JsonSafe(response.value)

(***************************************************************************)
(* C16.  For a floating-point argument of any kind, at top level or inside *)
(* lists, tuples and dicts, _convert_to_serializable returns None for NaN, *)
(* a str (not a float) for +inf and -inf, and the plain float otherwise.   *)
(* The code does so for numpy floats; a Python float that is infinite      *)
(* comes back as a float.                                                  *)
(***************************************************************************)
IsFloat(o) == o.t \in {"float", "np.float64"}

RECURSIVE FloatsRendered(_, _)
FloatsRendered(obj, out) ==
    CASE IsFloat(obj) /\ IsNaNNumber(obj.v) -> out = None
      [] IsFloat(obj) /\ IsInfNumber(obj.v) -> out.t = "str"
      [] IsFloat(obj) /\ IsFinite(obj.v) -> out = PyFloat(obj.v)
      [] obj.t \in {"list", "tuple"} ->
            /\ out.t = "list" /\ Len(out.v) = Len(obj.v)
            /\ \A i \in 1..Len(obj.v) : FloatsRendered(obj.v[i], out.v[i])
      [] obj.t = "dict" ->
            /\ out.t = "dict" /\ Len(out.v) = Len(obj.v)
            /\ \A i \in 1..Len(obj.v) : FloatsRendered(obj.v[i].v, out.v[i].v)
      [] OTHER -> TRUE

C16_FloatRules ==
    Converted => FloatsRendered(request.obj, response.value)

(***************************************************************************)
(* C17.  _ensure_json_serializable is an optimization of                   *)
(* _convert_to_serializable: for every value both return the same result   *)
(* (compared as the JSON they encode to: a numpy float as a float, a tuple *)
(* as a list, a dict key as its str), and the result is JSON-safe.         *)
(* The code returns what json.dumps accepts as it is, NaN and the          *)
(* infinities included, which _convert_to_serializable turns into None     *)
(* and into a str.                                                         *)
(***************************************************************************)
\* the value json.dumps writes for an object it accepts
RECURSIVE Encoded(_)
Encoded(o) ==
    CASE o.t = "np.float64" -> PyFloat(o.v)
      [] o.t \in {"list", "tuple"} -> PyList([i \in 1..Len(o.v) |-> Encoded(o.v[i])])
      [] o.t = "dict" ->
            PyDict([i \in 1..Len(o.v) |->
                       [k |-> PyStr(StrOf(o.v[i].k)), v |-> Encoded(o.v[i].v)]])
      [] OTHER -> o

Ensured == request.op = "_ensure_json_serializable"

C17_EnsureEqualsConvert ==
    Ensured =>
        /\ response.status = "returned"
        /\ Encoded(response.value) = Encoded(_convert_to_serializable(request.obj))
        /\ JsonSafe(response.value)
(***************************************************************************)
(* C18: generate_summary ends with the correlation clause if and only if   *)
(* there are at least two numeric columns, at least two rows, and two      *)
(* distinct numeric columns whose correlation is above 0.8 in magnitude;   *)
(* the clause names the first such pair in the row-major order of the      *)
(* correlation matrix, prints its correlation with two decimals (1.00 for  *)
(* a perfect one), and no second pair is reported.                         *)
(***************************************************************************)
SummaryAsked == request.op = "generate_summary"

SummaryReturned == SummaryAsked /\ response.status = "returned"

\* the pairs of distinct numeric columns above 0.8
StrongPairs ==
    {pair \in (1..Len(numeric_cols)) \X (1..Len(numeric_cols)) :
        pair[1] # pair[2] /\ Strong(CorrAt(pair[1], pair[2]))}

\* row-major order: by row, then by column
RowMajorFirst(pairs) ==
    CHOOSE p \in pairs :
        \A q \in pairs : p[1] < q[1] \/ (p[1] = q[1] /\ p[2] <= q[2])

\* the correlation with two decimals: the hundredth nearest to it
TwoDecimals(r) ==
    LET k == CHOOSE h \in 0..100 :
                 /\ (2 * h - 1) * (2 * h - 1) * r.den2 <= 40000 * r.num * r.num
                 /\ 40000 * r.num * r.num <= (2 * h + 1) * (2 * h + 1) * r.den2
        sign == IF r.num < 0 THEN "-" ELSE ""
    IN  IF r.num * r.num = r.den2 THEN sign \o "1.00"
        ELSE sign \o "0." \o ToString(k)

CorrelationClauseApplies ==
    Len(numeric_cols) >= 2 /\ NRows(df) >= 2 /\ StrongPairs # {}

CorrelationClause ==
    LET p == RowMajorFirst(StrongPairs)
    IN  "There is a strong correlation (" \o TwoDecimals(CorrAt(p[1], p[2]))
        \o ") between " \o numeric_cols[p[1]] \o " and " \o numeric_cols[p[2]] \o "."

C18_CorrelationClause ==
    SummaryReturned =>
        response.value =
            Join(SummaryParts \o Part(CorrelationClauseApplies, CorrelationClause), " ")

\* three numeric columns: x and y are not strongly correlated, x and z are,
\* in both cells of the matrix, and only the first cell is reported
C18_Witness ==
    /\ SummaryReturned
    /\ Len(numeric_cols) = 3
    /\ StrongPairs = {<<1, 3>>, <<3, 1>>}
    /\ response.value =
          "This dataset has 3 rows and 3 columns. It contains 3 numeric columns. "
          \o "There is a strong correlation (-1.00) between x and z."


(***************************************************************************)
(* C19: for every DataFrame, the empty one included, generate_summary of   *)
(* the profiler built from it returns a text that starts with 'This        *)
(* dataset has {rows} rows and {cols} columns.', followed by the clauses   *)
(* that apply, in the order type counts, special content, missing values,  *)
(* empty columns, correlation; a clause whose condition is false is left   *)
(* out: the type-count clause lists the types with a count above zero and  *)
(* is left out when there is none, the missing-value clause is there only  *)
(* when some cell is null, the empty-column clause only when some column   *)
(* has no rows.                                                            *)
(***************************************************************************)
\* the classification is the one __init__ builds from the DataFrame
ClassificationCurrent ==
    /\ numeric_cols = NumericCols(df)
    /\ categorical_cols = CategoricalCols(df)
    /\ datetime_cols = DatetimeCols(df)

CountsClauseTypes ==
    SelectSeq(<<[count |-> Len(numeric_cols), type |-> "numeric"],
                [count |-> Len(categorical_cols), type |-> "categorical"],
                [count |-> Len(datetime_cols), type |-> "datetime"]>>,
              LAMBDA t : t.count # 0)

CountsClause ==
    "It contains "
    \o Join([i \in 1..Len(CountsClauseTypes) |->
                ToString(CountsClauseTypes[i].count) \o " "
                \o CountsClauseTypes[i].type \o " columns"], ", ")
    \o "."

NullCells ==
    {cell \in (1..Len(df)) \X (1..NRows(df)) : IsNa(df[cell[1]].values[cell[2]])}

OutsideAscii ==
    \E i \in 1..Len(df) : \E j \in 1..Len(df[i].values) :
        /\ df[i].values[j].t = "str"
        /\ \E k \in 1..Len(df[i].values[j].v) : df[i].values[j].v[k].c \in NonAscii

ZeroLengthColumns == {i \in 1..Len(df) : Len(df[i].values) = 0}

\* a clause, left out when its condition is false
Clause(applies, text) == IF applies THEN <<text>> ELSE <<>>

ClausesThatApply ==
    Clause(TRUE, "This dataset has " \o ToString(NRows(df)) \o " rows and "
                 \o ToString(Len(df)) \o " columns.")
    \o Clause(CountsClauseTypes # <<>>, CountsClause)
    \o Clause(OutsideAscii, "The dataset includes special characters data.")
    \o Clause(NullCells # {},
              "There are " \o ToString(Cardinality(NullCells))
              \o " missing values across all columns.")
    \o Clause(ZeroLengthColumns # {},
              "There are " \o ToString(Cardinality(ZeroLengthColumns))
              \o " empty columns.")
    \o Clause(CorrelationClauseApplies, CorrelationClause)

C19_SummaryClausesInOrder ==
    SummaryAsked =>
        /\ ClassificationCurrent => response.status = "returned"
        /\ response.status = "returned" =>
              response.value =
                  Join(ClausesThatApply, " ")

\* the empty DataFrame, and a DataFrame where five of the six clauses apply
C19_WitnessEmpty ==
    /\ SummaryReturned
    /\ df = <<>>
    /\ response.value = "This dataset has 0 rows and 0 columns."

C19_Witness ==
    /\ SummaryReturned
    /\ response.value =
          "This dataset has 3 rows and 4 columns. "
          \o "It contains 2 numeric columns, 1 categorical columns, 1 datetime columns. "
          \o "The dataset includes special characters data. "
          \o "There are 1 missing values across all columns. "
          \o "There is a strong correlation (1.00) between numeric and other."

(***************************************************************************)
(* C21: for every column with at least one non-null value, top_values has  *)
(* exactly min(5, unique_count) entries and the count of each entry is the *)
(* number of occurrences of one distinct value of the column: no two       *)
(* distinct values among the five most frequent come under the same key,   *)
(* so that no entry is overwritten or lost.                                *)
(***************************************************************************)
\* the counts of the distinct values of column c
OccurrenceCounts(c) ==
    {CountOf(Column(df, c).values, v) : v \in Unique(Column(df, c).values)}

C21_TopValuesEntriesDistinct ==
    \A c \in ColumnNames(df) :
        (HasProfile(c) /\ Unique(Column(df, c).values) # {}) =>
            LET top_values == ProfileOf(c).top_values
            IN  /\ Cardinality(DOMAIN top_values)
                       = Min(TopN, NUnique(Column(df, c).values))
                /\ ProfileOf(c).unique_count = PyInt(NUnique(Column(df, c).values))
                /\ \A key \in DOMAIN top_values :
                       /\ top_values[key].t = "int"
                       /\ top_values[key].v \in OccurrenceCounts(c)

=============================================================================
